---- MODULE Spec2Model ----
(***************************************************************************)
(* The work-distribution queue of kitchen_sync (src/src/sync_queue.h):     *)
(* SyncQueue hands whole tables to workers and, once the pending list is   *)
(* empty, lets idle workers borrow ready ranges from tables other workers  *)
(* own.  Threads are modelled by a program position per worker; the global *)
(* mutex, the per-job mutexes and the two kinds of condition variable are  *)
(* explicit, so a handler is split exactly where it can block.             *)
(***************************************************************************)
EXTENDS Integers, Sequences, FiniteSets, TLC

\* Bounds of the model.
NWorkers == 2
MaxJobs == 2
MaxRanges == 1
MaxPriority == 2
CallsCap == 2
\* one job's priority queue on its own (HeapSpec): ranges held at once, priorities
MaxHeapLen == 5
MaxHeapPriority == 3

\* The workers that run the whole driver, and the threads of the model: one more
\* than the workers, so that the runs without abort (BorrowSpec) have two
\* borrowers beside an owner.  In Spec the extra thread never runs.
Workers == 1..NWorkers
Threads == 1..(NWorkers + 1)
\* A job is identified by the address of its TableJob; set<shared_ptr<TableJob>>
\* iterates in address order, and make_shared may hand out addresses in any order.
Jobs == 1..MaxJobs
Priorities == 1..MaxPriority
HeapPriorities == 1..MaxHeapPriority
NoOne == 0

VARIABLES
    tables_to_process,                 \* list<shared_ptr<TableJob>>
    tables_being_processed,            \* set<shared_ptr<TableJob>>
    tables_with_work_to_share,         \* set<shared_ptr<TableJob>>
    sharing_work,                      \* bool
    aborted,                           \* AbortableBarrier::aborted
    mutex,                             \* holder of AbortableBarrier::mutex, or NoOne
    cond_waiting,                      \* workers blocked in cond.wait and not yet notified
    job_mutex,                         \* per job: holder of TableJob::mutex, or NoOne
    btc_waiting,                       \* per job: workers blocked on borrowed_task_completed
    ranges_to_check,                   \* per job: the heap array of the priority_queue (priorities)
    notify_when_work_could_be_shared,  \* per job: bool
    pc,                                \* per worker: position in the code
    it,                                \* per worker: the jobs a range-for loop still has to visit
    cur,                               \* per worker: the job it drives or borrows from (0: none)
    mode,                              \* per worker: "none", "own" or "borrow"
    result,                            \* per worker: outcome of its last find_table_job call
    abort_result,                      \* per worker: what its abort() call returned
    \* history of the run, written but never read by the program
    enqueued,                          \* jobs created by enqueue_tables_to_process
    completed,                         \* jobs passed to completed_table
    offered,                           \* jobs passed to have_work_to_share
    owners,                            \* per job: workers that were handed it as a whole table
    calls,                             \* per worker: find_table_job calls made (capped)
    phase,                             \* "new", "enqueued", "claiming"
    ssw_count,                         \* executions of start_sharing_work (capped)
    woken_by,                          \* per worker: the job whose offer last woke it (0: none)
    waited,                            \* per worker: its current or last call blocked in cond.wait
    enq_order,                         \* the tables in the order enqueue_tables_to_process got them
    taken,                             \* the range last taken with top() and pop() in HeapSpec (0: none)
    taken_since                        \* per worker holding a grant: who took ranges from the job since

queue_vars == <<tables_to_process, tables_being_processed, tables_with_work_to_share, sharing_work>>
lock_vars == <<mutex, cond_waiting, job_mutex, btc_waiting>>
lock_vars_but_job == <<mutex, cond_waiting, btc_waiting>>
job_vars == <<ranges_to_check, notify_when_work_could_be_shared>>
worker_vars == <<pc, it, cur, mode, result, abort_result>>
hist_vars_but_since == <<enqueued, completed, offered, owners, calls, phase, ssw_count, woken_by,
                         waited, enq_order, taken>>
hist_vars == <<hist_vars_but_since, taken_since>>
vars == <<queue_vars, aborted, lock_vars, job_vars, worker_vars, hist_vars>>

----------------------------------------------------------------------------
\* Helpers.

Range(s) == {s[i] : i \in 1..Len(s)}

Min(S) == CHOOSE x \in S : \A y \in S : x <= y

RECURSIVE InOrder(_)
\* the elements of a std::set in iteration order
InOrder(S) == IF S = {} THEN <<>> ELSE <<Min(S)>> \o InOrder(S \ {Min(S)})

\* the sequences a caller may pass to enqueue: distinct fresh jobs in any order
InjectiveSeqs(S) ==
    UNION {{s \in [1..n -> S] : \A i, j \in 1..n : i # j => s[i] # s[j]} : n \in 0..Cardinality(S)}

----------------------------------------------------------------------------
\* priority_queue<KeyRangeToCheck, deque<KeyRangeToCheck>, lower_priority>.
\* A range is represented by its priority; the container is the heap array.

\* a comparison that orders the queue by lowest priority first
lower_priority_reversed(l, r) == l > r

\* lower_priority::operator(): l.priority < r.priority
lower_priority(l, r) == l < r

RECURSIVE PushHeapLoop(_, _, _)
\* std::push_heap: move the hole up while its parent has lower priority
PushHeapLoop(s, hole, value) ==
    IF hole > 1 /\ lower_priority(s[hole \div 2], value)
    THEN PushHeapLoop([s EXCEPT ![hole] = s[hole \div 2]], hole \div 2, value)
    ELSE [s EXCEPT ![hole] = value]

\* priority_queue::push: c.push_back(x); push_heap(c.begin(), c.end(), comp)
HeapPush(s, value) == PushHeapLoop(Append(s, value), Len(s) + 1, value)

RECURSIVE AdjustHeapLoop(_, _, _)
\* std::__adjust_heap, first loop (0-based child indexes as in the library):
\* move the hole down to the child of higher priority; yields <<array, hole>>
AdjustHeapLoop(s, secondChild, len) ==
    IF secondChild < (len - 1) \div 2
    THEN LET c2 == 2 * (secondChild + 1)
             c  == IF lower_priority(s[c2 + 1], s[c2]) THEN c2 - 1 ELSE c2
         IN AdjustHeapLoop([s EXCEPT ![secondChild + 1] = s[c + 1]], c, len)
    ELSE <<s, secondChild>>

\* std::__adjust_heap over the first len elements with the hole at the root
AdjustHeap(s, len, value) ==
    LET r  == AdjustHeapLoop(s, 0, len)
        s1 == r[1]
        h1 == r[2]
        only == len % 2 = 0 /\ h1 = (len - 2) \div 2
        s2 == IF only THEN [s1 EXCEPT ![h1 + 1] = s1[2 * (h1 + 1)]] ELSE s1
        h2 == IF only THEN 2 * (h1 + 1) - 1 ELSE h1
    IN PushHeapLoop(s2, h2 + 1, value)

\* priority_queue::pop: pop_heap(c.begin(), c.end(), comp); c.pop_back()
HeapPop(s) ==
    IF Len(s) <= 1 THEN <<>>
    ELSE LET n == Len(s)
         IN SubSeq(AdjustHeap([s EXCEPT ![n] = s[1]], n - 1, s[n]), 1, n - 1)

\* priority_queue::top
HeapTop(s) == s[1]

\* a have_work_to_share that always says yes
job_have_work_to_share_always(j) == TRUE

\* TableJob::have_work_to_share
job_have_work_to_share(j) == ranges_to_check[j] # <<>>

\* a finished() that looks at the pending list only
finished_pending_only == tables_to_process = <<>>

\* SyncQueue::finished
finished == tables_to_process = <<>> /\ tables_being_processed = {}

----------------------------------------------------------------------------
TypeOK ==
    /\ tables_to_process \in Seq(Jobs)
    /\ tables_being_processed \subseteq Jobs
    /\ tables_with_work_to_share \subseteq Jobs
    /\ sharing_work \in BOOLEAN
    /\ aborted \in BOOLEAN
    /\ mutex \in Threads \cup {NoOne}
    /\ cond_waiting \subseteq Threads
    /\ job_mutex \in [Jobs -> Threads \cup {NoOne}]
    /\ btc_waiting \in [Jobs -> SUBSET Threads]
    /\ \A j \in Jobs : \/ /\ ranges_to_check[j] \in Seq(Priorities)
                          /\ Len(ranges_to_check[j]) <= MaxRanges
                       \/ /\ ranges_to_check[j] \in Seq(HeapPriorities)
                          /\ Len(ranges_to_check[j]) <= MaxHeapLen
                          /\ phase = "new"
    /\ notify_when_work_could_be_shared \in [Jobs -> BOOLEAN]
    /\ pc \in [Threads -> {"idle", "done", "start_sharing", "scan", "wait", "abort_lock",
                           "abort_notify", "job_held", "job_checked", "btc_wait"}]
    /\ \A w \in Threads : it[w] \in Seq(Jobs)
    /\ cur \in [Threads -> Jobs \cup {0}]
    /\ mode \in [Threads -> {"none", "own", "borrow"}]
    /\ result \in [Threads -> [kind : {"none", "table", "borrow", "nowork", "cancelled"}, job : Jobs \cup {0}]]
    /\ abort_result \in [Threads -> {"none", "true", "false"}]
    /\ enqueued \subseteq Jobs /\ completed \subseteq Jobs /\ offered \subseteq Jobs
    /\ owners \in [Jobs -> SUBSET Threads]
    /\ calls \in [Threads -> 0..CallsCap]
    /\ phase \in {"new", "enqueued", "claiming"}
    /\ ssw_count \in 0..2
    /\ woken_by \in [Threads -> Jobs \cup {0}]
    /\ waited \in [Threads -> BOOLEAN]
    /\ enq_order \in Seq(Jobs)
    /\ taken \in HeapPriorities \cup {0}
    /\ taken_since \in [Threads -> SUBSET Threads]

\* SyncQueue(workers): AbortableBarrier(workers), sharing_work(false); no job exists yet
Init ==
    /\ tables_to_process = <<>>
    /\ tables_being_processed = {}
    /\ tables_with_work_to_share = {}
    /\ sharing_work = FALSE
    /\ aborted = FALSE
    /\ mutex = NoOne
    /\ cond_waiting = {}
    /\ job_mutex = [j \in Jobs |-> NoOne]
    /\ btc_waiting = [j \in Jobs |-> {}]
    /\ ranges_to_check = [j \in Jobs |-> <<>>]
    /\ notify_when_work_could_be_shared = [j \in Jobs |-> FALSE]
    /\ pc = [w \in Threads |-> "idle"]
    /\ it = [w \in Threads |-> <<>>]
    /\ cur = [w \in Threads |-> 0]
    /\ mode = [w \in Threads |-> "none"]
    /\ result = [w \in Threads |-> [kind |-> "none", job |-> 0]]
    /\ abort_result = [w \in Threads |-> "none"]
    /\ enqueued = {}
    /\ completed = {}
    /\ offered = {}
    /\ owners = [j \in Jobs |-> {}]
    /\ calls = [w \in Threads |-> 0]
    /\ phase = "new"
    /\ ssw_count = 0
    /\ woken_by = [w \in Threads |-> 0]
    /\ waited = [w \in Threads |-> FALSE]
    /\ enq_order = <<>>
    /\ taken = 0
    /\ taken_since = [w \in Threads |-> {}]

----------------------------------------------------------------------------
\* Container and condition-variable primitives used by the handlers.

\* a pop_front that leaves the front job in the list
pop_front_keeps(s) == s

\* a pop_front that removes the job at the back of the list
pop_front_back(s) == SubSeq(s, 1, Len(s) - 1)

\* list::pop_front
pop_front(s) == Tail(s)

\* an empty() that is already true with one job left
empty_but_one(s) == Len(s) <= 1

\* list::empty
empty(s) == s = <<>>

\* a front that yields the job enqueued last
front_is_back(s) == s[Len(s)]

\* list::front
front(s) == Head(s)

\* set::insert
insert(S, j) == S \cup {j}

\* set::erase
erase(S, j) == S \ {j}

\* condition_variable::notify_all on a set of blocked waiters: none stays blocked
notify_all(waiting) == {}

\* a completed_table that leaves the job in the shareable set
erase_shared_keeps(share, j) == share

\* completed_table: tables_with_work_to_share.erase(table_job)
erase_shared(share, j) == erase(share, j)

\* a completed_table that leaves the job in the claimed set
erase_processed_keeps(being, j) == being

\* completed_table: tables_being_processed.erase(table_job)
erase_processed(being, j) == erase(being, j)

\* a completed_table that wakes nobody
notify_if_finished_never(waiting, fin) == waiting

\* completed_table: if (finished()) cond.notify_all(), with fin the value of finished()
notify_if_finished(waiting, fin) == IF fin THEN notify_all(waiting) ELSE waiting

\* a have_work_to_share that wakes nobody
notify_borrowers_none(waiting) == waiting

\* have_work_to_share: cond.notify_all()
notify_borrowers(waiting) == notify_all(waiting)

\* unique_lock<mutex> table_job_lock(table_job->mutex): w holds the job's mutex
unique_lock(jm, j, w) == [jm EXCEPT ![j] = w]

\* a scope that ends with the job's mutex still held
unlock_never(jm, j) == jm

\* table_job_lock goes out of scope at the end of the loop body or of the
\* function, or with the return: the job's mutex is free again
unlock(jm, j) == [jm EXCEPT ![j] = NoOne]

\* an abort that notifies without taking the job's mutex
can_lock_job_unlocked(j) == TRUE

\* abort: unique_lock table_job_lock(table_job->mutex) can be taken when the mutex is free
can_lock_job(j) == job_mutex[j] = NoOne

\* a find_table_job without the aborted check
throw_if_aborted_never == FALSE

\* if (aborted) throw aborted_error();
throw_if_aborted == aborted

\* a find_table_job that starts sharing on every call with an empty pending list
must_start_sharing_always == TRUE

\* if (!sharing_work) start_sharing_work();
must_start_sharing == ~sharing_work

\* a start_sharing_work_in that leaves the job's flag alone
set_notify_skipped(flags, j) == flags

\* start_sharing_work_in: table_job->notify_when_work_could_be_shared = true
set_notify(flags, j) == [flags EXCEPT ![j] = TRUE]

\* a start_sharing_work_in that only sets the flag
share_if_ready_never(share, j) == share

\* start_sharing_work_in: if (table_job->have_work_to_share()) tables_with_work_to_share.insert(table_job)
share_if_ready(share, j) == IF job_have_work_to_share(j) THEN insert(share, j) ELSE share

\* a scan that empties the shareable set at the first job found without work
erase_visited_all(share, j) == {}

\* borrow_work: it = tables_with_work_to_share.erase(it), reached only when the
\* job under it was found without work (a job with work is returned before)
erase_visited(share, j) == erase(share, j)

\* what a returning find_table_job leaves in the worker
Returned(kind, j) == [kind |-> kind, job |-> j]

\* borrow_work from the top of its loop to the next point where it can block,
\* with the global mutex held by w and share the set it is about to scan
borrow_work(w, share) ==
    /\ pc' = [pc EXCEPT ![w] = IF finished THEN "done" ELSE IF share = {} THEN "wait" ELSE "scan"]
    /\ mutex' = IF finished \/ share = {} THEN NoOne ELSE w
    /\ cond_waiting' = IF ~finished /\ share = {} THEN cond_waiting \cup {w} ELSE cond_waiting
    /\ result' = [result EXCEPT ![w] = IF finished THEN Returned("nowork", 0) ELSE Returned("none", 0)]

----------------------------------------------------------------------------
\* enqueue_tables_to_process, called once before the workers begin claiming:
\* one fresh TableJob per table, appended in order.
enqueue_tables_to_process(tables) ==
    /\ phase = "new"
    /\ mutex = NoOne
    /\ tables_to_process' = tables_to_process \o tables
    /\ enqueued' = enqueued \cup Range(tables)
    /\ enq_order' = enq_order \o tables
    /\ phase' = "enqueued"
    /\ UNCHANGED <<tables_being_processed, tables_with_work_to_share, sharing_work, aborted,
                   lock_vars, job_vars, worker_vars, completed, offered, owners, calls,
                   ssw_count, woken_by, waited, taken, taken_since>>

\* find_table_job, from taking the global mutex to its return or to the first
\* point where it can block (a job's mutex, or cond.wait)
find_table_job(w) ==
    /\ pc[w] = "idle" /\ mode[w] = "none"
    /\ phase # "new"
    /\ mutex = NoOne
    /\ calls' = [calls EXCEPT ![w] = IF @ < CallsCap THEN @ + 1 ELSE @]
    /\ phase' = "claiming"
    /\ woken_by' = [woken_by EXCEPT ![w] = 0]
    /\ IF throw_if_aborted
       THEN /\ pc' = [pc EXCEPT ![w] = "done"]
            /\ result' = [result EXCEPT ![w] = Returned("cancelled", 0)]
            /\ UNCHANGED <<queue_vars, lock_vars, it, cur, mode, owners, ssw_count>>
       ELSE IF ~empty(tables_to_process)
       THEN LET table_job == front(tables_to_process)
            IN /\ tables_to_process' = pop_front(tables_to_process)
               /\ tables_being_processed' = insert(tables_being_processed, table_job)
               /\ result' = [result EXCEPT ![w] = Returned("table", table_job)]
               /\ cur' = [cur EXCEPT ![w] = table_job]
               /\ mode' = [mode EXCEPT ![w] = "own"]
               /\ owners' = [owners EXCEPT ![table_job] = @ \cup {w}]
               /\ UNCHANGED <<tables_with_work_to_share, sharing_work, lock_vars, pc, it, ssw_count>>
       ELSE IF must_start_sharing
       THEN \* start_sharing_work: set the flag, then visit the pending and the claimed jobs
            LET todo == tables_to_process \o InOrder(tables_being_processed)
            IN /\ sharing_work' = TRUE
               /\ ssw_count' = IF ssw_count < 2 THEN ssw_count + 1 ELSE ssw_count
               /\ it' = [it EXCEPT ![w] = todo]
               /\ IF todo # <<>>
                  THEN /\ pc' = [pc EXCEPT ![w] = "start_sharing"]
                       /\ mutex' = w
                       /\ result' = [result EXCEPT ![w] = Returned("none", 0)]
                       /\ UNCHANGED cond_waiting
                  ELSE borrow_work(w, tables_with_work_to_share)
               /\ UNCHANGED <<tables_to_process, tables_being_processed, tables_with_work_to_share,
                              job_mutex, btc_waiting, cur, mode, owners>>
       ELSE /\ borrow_work(w, tables_with_work_to_share)
            /\ UNCHANGED <<queue_vars, job_mutex, btc_waiting, it, cur, mode, owners, ssw_count>>
    /\ waited' = [waited EXCEPT ![w] = pc'[w] = "wait"]
    /\ UNCHANGED <<aborted, job_vars, abort_result, enqueued, completed, offered, enq_order,
                   taken, taken_since>>

\* start_sharing_work_in for the next job of the loop, under that job's mutex;
\* after the last job find_table_job goes on into borrow_work
start_sharing_work_in(w) ==
    /\ pc[w] = "start_sharing"
    /\ LET table_job == Head(it[w])
           share == share_if_ready(tables_with_work_to_share, table_job)
       IN /\ job_mutex[table_job] = NoOne
          /\ notify_when_work_could_be_shared' =
                 set_notify(notify_when_work_could_be_shared, table_job)
          /\ tables_with_work_to_share' = share
          /\ it' = [it EXCEPT ![w] = Tail(@)]
          /\ IF Tail(it[w]) # <<>>
             THEN UNCHANGED <<pc, mutex, cond_waiting, result>>
             ELSE borrow_work(w, share)
          /\ job_mutex' = unlock(unique_lock(job_mutex, table_job, w), table_job)
    /\ waited' = [waited EXCEPT ![w] = pc'[w] = "wait"]
    /\ UNCHANGED <<tables_to_process, tables_being_processed, sharing_work, aborted,
                   btc_waiting, ranges_to_check, cur, mode, abort_result, enqueued, completed,
                   offered, owners, calls, phase, ssw_count, woken_by, enq_order, taken,
                   taken_since>>

\* one pass of borrow_work's for loop: the first job of the shareable set is
\* looked at under its mutex, and returned or erased
borrow_work_scan(w) ==
    /\ pc[w] = "scan"
    /\ LET table_job == Min(tables_with_work_to_share)
       IN /\ job_mutex[table_job] = NoOne
          /\ IF job_have_work_to_share(table_job)
             THEN /\ result' = [result EXCEPT ![w] = Returned("borrow", table_job)]
                  /\ cur' = [cur EXCEPT ![w] = table_job]
                  /\ mode' = [mode EXCEPT ![w] = "borrow"]
                  /\ pc' = [pc EXCEPT ![w] = "idle"]
                  /\ mutex' = NoOne
                  /\ UNCHANGED <<tables_with_work_to_share, cond_waiting>>
             ELSE LET share == erase_visited(tables_with_work_to_share, table_job)
                  IN /\ tables_with_work_to_share' = share
                     /\ IF share # {}
                        THEN UNCHANGED <<pc, mutex, cond_waiting>>
                        ELSE \* cond.wait(lock): release the mutex and block
                             /\ pc' = [pc EXCEPT ![w] = "wait"]
                             /\ mutex' = NoOne
                             /\ cond_waiting' = cond_waiting \cup {w}
                     /\ UNCHANGED <<result, cur, mode>>
          /\ job_mutex' = unlock(unique_lock(job_mutex, table_job, w), table_job)
    /\ woken_by' = [woken_by EXCEPT ![w] = IF pc'[w] = "wait" THEN 0 ELSE @]
    /\ waited' = [waited EXCEPT ![w] = @ \/ pc'[w] = "wait"]
    /\ taken_since' = [taken_since EXCEPT ![w] = {}]
    /\ UNCHANGED <<tables_to_process, tables_being_processed, sharing_work, aborted,
                   btc_waiting, job_vars, it, abort_result, enqueued, completed, offered,
                   owners, calls, phase, ssw_count, enq_order, taken>>

\* cond.wait returns: a notified worker takes the mutex again and goes round
\* borrow_work's loop
cond_wait_return(w) ==
    /\ pc[w] = "wait"
    /\ w \notin cond_waiting
    /\ mutex = NoOne
    /\ borrow_work(w, tables_with_work_to_share)
    /\ woken_by' = [woken_by EXCEPT ![w] =
                       IF finished \/ tables_with_work_to_share = {} THEN 0 ELSE @]
    /\ UNCHANGED waited
    /\ UNCHANGED <<queue_vars, aborted, job_mutex, btc_waiting, job_vars, it, cur, mode,
                   abort_result, enqueued, completed, offered, owners, calls, phase, ssw_count,
                   enq_order, taken, taken_since>>

\* condition_variable::wait may return without a notification
spurious_wakeup(w) ==
    /\ w \in cond_waiting
    /\ cond_waiting' = cond_waiting \ {w}
    /\ UNCHANGED <<queue_vars, aborted, mutex, job_mutex, btc_waiting, job_vars, worker_vars,
                   hist_vars>>

\* completed_table, called by the job's owner once the table has no ranges left
completed_table(w) ==
    /\ pc[w] = "idle" /\ mode[w] = "own"
    /\ ~job_have_work_to_share(cur[w])
    /\ mutex = NoOne
    /\ LET table_job == cur[w]
           being == erase_processed(tables_being_processed, table_job)
       IN /\ tables_with_work_to_share' = erase_shared(tables_with_work_to_share, table_job)
          /\ tables_being_processed' = being
          /\ cond_waiting' = notify_if_finished(cond_waiting, tables_to_process = <<>> /\ being = {})
          /\ completed' = completed \cup {table_job}
    /\ cur' = [cur EXCEPT ![w] = 0]
    /\ mode' = [mode EXCEPT ![w] = "none"]
    /\ UNCHANGED <<tables_to_process, sharing_work, aborted, mutex, job_mutex, btc_waiting,
                   job_vars, pc, it, result, abort_result, enqueued, offered, owners, calls,
                   phase, ssw_count, woken_by, waited, enq_order, taken, taken_since>>

\* have_work_to_share, called by the job's owner when the job has been told to
\* publish its ready work
have_work_to_share(w) ==
    /\ pc[w] = "idle" /\ mode[w] = "own"
    /\ notify_when_work_could_be_shared[cur[w]]
    /\ mutex = NoOne
    /\ tables_with_work_to_share' = insert(tables_with_work_to_share, cur[w])
    /\ cond_waiting' = notify_borrowers(cond_waiting)
    /\ woken_by' = [x \in Threads |->
                       IF x \in cond_waiting \ cond_waiting' /\ job_have_work_to_share(cur[w])
                       THEN cur[w] ELSE woken_by[x]]
    /\ offered' = offered \cup {cur[w]}
    /\ UNCHANGED <<tables_to_process, tables_being_processed, sharing_work, aborted, mutex,
                   job_mutex, btc_waiting, job_vars, worker_vars, enqueued, completed, owners,
                   calls, phase, ssw_count, waited, enq_order, taken, taken_since>>

----------------------------------------------------------------------------
\* AbortableBarrier::abort (abortable_barrier.h): under the global mutex the
\* first caller sets the flag, wakes every waiter of cond and gets true; later
\* callers get false.  SyncQueue::abort then takes the mutex again.
barrier_abort(w) ==
    /\ pc[w] = "idle"
    /\ mutex = NoOne
    /\ aborted' = TRUE
    /\ abort_result' = [abort_result EXCEPT ![w] = IF aborted THEN "false" ELSE "true"]
    /\ cond_waiting' = IF aborted THEN cond_waiting ELSE notify_all(cond_waiting)
    /\ pc' = [pc EXCEPT ![w] = "abort_lock"]
    /\ UNCHANGED <<queue_vars, mutex, job_mutex, btc_waiting, job_vars, it, cur, mode, result,
                   hist_vars>>

\* an abort whose loop runs only for the caller that aborted the barrier first
jobs_to_notify_if_first(w) ==
    IF abort_result[w] = "true" THEN InOrder(tables_being_processed) ELSE <<>>

\* abort: for (const shared_ptr<TableJob> &table_job : tables_being_processed),
\* whatever AbortableBarrier::abort returned to w
jobs_to_notify(w) == InOrder(tables_being_processed)

\* SyncQueue::abort after the barrier's abort: lock the mutex and start the
\* loop over tables_being_processed
abort_lock(w) ==
    /\ pc[w] = "abort_lock"
    /\ mutex = NoOne
    /\ LET todo == jobs_to_notify(w)
       IN /\ it' = [it EXCEPT ![w] = todo]
          /\ IF todo # <<>>
             THEN /\ pc' = [pc EXCEPT ![w] = "abort_notify"]
                  /\ mutex' = w
             ELSE /\ pc' = [pc EXCEPT ![w] = "done"]
                  /\ mutex' = NoOne
    /\ UNCHANGED <<queue_vars, aborted, cond_waiting, job_mutex, btc_waiting, job_vars, cur, mode,
                   result, abort_result, hist_vars>>

\* one pass of abort's loop: under the job's mutex, borrowed_task_completed.notify_all()
abort_notify(w) ==
    /\ pc[w] = "abort_notify"
    /\ LET table_job == Head(it[w])
       IN /\ can_lock_job(table_job)
          /\ btc_waiting' = [btc_waiting EXCEPT ![table_job] = notify_all(@)]
          /\ job_mutex' = unlock(unique_lock(job_mutex, table_job, w), table_job)
    /\ it' = [it EXCEPT ![w] = Tail(@)]
    /\ IF Tail(it[w]) # <<>>
       THEN UNCHANGED <<pc, mutex>>
       ELSE /\ pc' = [pc EXCEPT ![w] = "done"]
            /\ mutex' = NoOne
    /\ UNCHANGED <<queue_vars, aborted, cond_waiting, job_vars, cur, mode, result,
                   abort_result, hist_vars>>

----------------------------------------------------------------------------
\* The worker driving or borrowing from a job works on the job's queues under
\* the job's own mutex only.

lock_job(w) ==
    /\ pc[w] = "idle" /\ mode[w] # "none"
    /\ job_mutex[cur[w]] = NoOne
    /\ job_mutex' = [job_mutex EXCEPT ![cur[w]] = w]
    /\ pc' = [pc EXCEPT ![w] = "job_held"]
    /\ UNCHANGED <<queue_vars, aborted, mutex, cond_waiting, btc_waiting, job_vars, it, cur, mode,
                   result, abort_result, hist_vars>>

\* the owner makes a range ready: ranges_to_check.push(range)
push_range(w, priority) ==
    /\ pc[w] = "job_held" /\ mode[w] = "own"
    /\ Len(ranges_to_check[cur[w]]) < MaxRanges
    /\ ranges_to_check' = [ranges_to_check EXCEPT ![cur[w]] = HeapPush(@, priority)]
    /\ job_mutex' = [job_mutex EXCEPT ![cur[w]] = NoOne]
    /\ pc' = [pc EXCEPT ![w] = "idle"]
    /\ UNCHANGED <<queue_vars, aborted, mutex, cond_waiting, btc_waiting,
                   notify_when_work_could_be_shared, it, cur, mode, result, abort_result,
                   hist_vars>>

\* the owner or a borrower takes the ready range of highest priority:
\* ranges_to_check.top(); ranges_to_check.pop().  A borrower has then used its grant.
pop_range(w) ==
    /\ pc[w] = "job_held"
    /\ job_have_work_to_share(cur[w])
    /\ ranges_to_check' = [ranges_to_check EXCEPT ![cur[w]] = HeapPop(@)]
    /\ job_mutex' = [job_mutex EXCEPT ![cur[w]] = NoOne]
    /\ pc' = [pc EXCEPT ![w] = "idle"]
    /\ cur' = [cur EXCEPT ![w] = IF mode[w] = "borrow" THEN 0 ELSE @]
    /\ mode' = [mode EXCEPT ![w] = IF @ = "borrow" THEN "none" ELSE @]
    /\ taken_since' = [x \in Threads |->
                          IF x # w /\ mode[x] = "borrow" /\ cur[x] = cur[w]
                          THEN taken_since[x] \cup {w}
                          ELSE IF x = w THEN {} ELSE taken_since[x]]
    /\ UNCHANGED <<queue_vars, aborted, mutex, cond_waiting, btc_waiting,
                   notify_when_work_could_be_shared, it, result, abort_result,
                   hist_vars_but_since>>

\* a borrower that finds nothing left to take gives up its grant
unlock_job(w) ==
    /\ pc[w] = "job_held" /\ mode[w] = "borrow"
    /\ ~job_have_work_to_share(cur[w])
    /\ job_mutex' = [job_mutex EXCEPT ![cur[w]] = NoOne]
    /\ pc' = [pc EXCEPT ![w] = "idle"]
    /\ cur' = [cur EXCEPT ![w] = 0]
    /\ mode' = [mode EXCEPT ![w] = "none"]
    /\ taken_since' = [taken_since EXCEPT ![w] = {}]
    /\ UNCHANGED <<queue_vars, aborted, lock_vars_but_job, job_vars, it, result, abort_result,
                   hist_vars_but_since>>

\* the owner, waiting for borrowed work to finish, first looks at the aborted
\* flag under the job's mutex and goes on to wait only if the run is not aborted
check_not_aborted(w) ==
    /\ pc[w] = "job_held" /\ mode[w] = "own"
    /\ ~aborted
    /\ pc' = [pc EXCEPT ![w] = "job_checked"]
    /\ UNCHANGED <<queue_vars, aborted, lock_vars, job_vars, it, cur, mode, result, abort_result,
                   hist_vars>>

\* borrowed_task_completed.wait(lock): release the job's mutex and block
wait_borrowed_task(w) ==
    /\ pc[w] = "job_checked"
    /\ btc_waiting' = [btc_waiting EXCEPT ![cur[w]] = @ \cup {w}]
    /\ job_mutex' = [job_mutex EXCEPT ![cur[w]] = NoOne]
    /\ pc' = [pc EXCEPT ![w] = "btc_wait"]
    /\ UNCHANGED <<queue_vars, aborted, mutex, cond_waiting, job_vars, it, cur, mode, result,
                   abort_result, hist_vars>>

\* borrowed_task_completed.wait returns: the woken owner holds the job's mutex again
btc_wait_return(w) ==
    /\ pc[w] = "btc_wait"
    /\ w \notin btc_waiting[cur[w]]
    /\ job_mutex[cur[w]] = NoOne
    /\ job_mutex' = [job_mutex EXCEPT ![cur[w]] = w]
    /\ pc' = [pc EXCEPT ![w] = "job_held"]
    /\ UNCHANGED <<queue_vars, aborted, mutex, cond_waiting, btc_waiting, job_vars, it, cur, mode,
                   result, abort_result, hist_vars>>

\* the owner leaves the job's critical section without changing anything
release_job(w) ==
    /\ pc[w] = "job_held" /\ mode[w] = "own"
    /\ job_mutex' = [job_mutex EXCEPT ![cur[w]] = NoOne]
    /\ pc' = [pc EXCEPT ![w] = "idle"]
    /\ UNCHANGED <<queue_vars, aborted, lock_vars_but_job, job_vars, it, cur, mode, result,
                   abort_result, hist_vars>>

\* borrowed_task_completed.wait may return without a notification
spurious_wakeup_job(w) ==
    /\ pc[w] = "btc_wait"
    /\ w \in btc_waiting[cur[w]]
    /\ btc_waiting' = [btc_waiting EXCEPT ![cur[w]] = @ \ {w}]
    /\ UNCHANGED <<queue_vars, aborted, mutex, cond_waiting, job_mutex, job_vars, worker_vars,
                   hist_vars>>

----------------------------------------------------------------------------
Next ==
    \/ \E tables \in InjectiveSeqs(Jobs) : enqueue_tables_to_process(tables)
    \/ \E w \in Workers : find_table_job(w)
    \/ \E w \in Workers : start_sharing_work_in(w)
    \/ \E w \in Workers : borrow_work_scan(w)
    \/ \E w \in Workers : cond_wait_return(w)
    \/ \E w \in Workers : spurious_wakeup(w)
    \/ \E w \in Workers : completed_table(w)
    \/ \E w \in Workers : have_work_to_share(w)
    \/ \E w \in Workers : barrier_abort(w)
    \/ \E w \in Workers : abort_lock(w)
    \/ \E w \in Workers : abort_notify(w)
    \/ \E w \in Workers : lock_job(w)
    \/ \E w \in Workers, priority \in Priorities : push_range(w, priority)
    \/ \E w \in Workers : pop_range(w)
    \/ \E w \in Workers : unlock_job(w)
    \/ \E w \in Workers : check_not_aborted(w)
    \/ \E w \in Workers : wait_borrowed_task(w)
    \/ \E w \in Workers : btc_wait_return(w)
    \/ \E w \in Workers : release_job(w)
    \/ \E w \in Workers : spurious_wakeup_job(w)

Spec == Init /\ [][Next]_vars

----------------------------------------------------------------------------
\* One job's ranges_to_check on its own: any interleaving of insertions and
\* removals on the priority queue of a single TableJob.

\* ranges_to_check.push(range)
push(j, priority) ==
    /\ Len(ranges_to_check[j]) < MaxHeapLen
    /\ ranges_to_check' = [ranges_to_check EXCEPT ![j] = HeapPush(@, priority)]
    /\ UNCHANGED <<queue_vars, aborted, lock_vars, notify_when_work_could_be_shared, worker_vars,
                   hist_vars>>

\* range = ranges_to_check.top(); ranges_to_check.pop()
top_and_pop(j) ==
    /\ ranges_to_check[j] # <<>>
    /\ taken' = HeapTop(ranges_to_check[j])
    /\ ranges_to_check' = [ranges_to_check EXCEPT ![j] = HeapPop(@)]
    /\ UNCHANGED <<queue_vars, aborted, lock_vars, notify_when_work_could_be_shared, worker_vars,
                   enqueued, completed, offered, owners, calls, phase, ssw_count, woken_by,
                   waited, enq_order, taken_since>>

HeapNext ==
    \/ \E priority \in HeapPriorities : push(Min(Jobs), priority)
    \/ top_and_pop(Min(Jobs))

HeapSpec == Init /\ [][HeapNext]_vars

----------------------------------------------------------------------------
\* The runs in which abort is never called and no owner waits for borrowed
\* work, with every thread claiming, driving and borrowing: an owner and two
\* borrowers, or two owners and a borrower.
BorrowNext ==
    \/ \E tables \in InjectiveSeqs(Jobs) : enqueue_tables_to_process(tables)
    \/ \E w \in Threads : find_table_job(w)
    \/ \E w \in Threads : start_sharing_work_in(w)
    \/ \E w \in Threads : borrow_work_scan(w)
    \/ \E w \in Threads : cond_wait_return(w)
    \/ \E w \in Threads : spurious_wakeup(w)
    \/ \E w \in Threads : completed_table(w)
    \/ \E w \in Threads : have_work_to_share(w)
    \/ \E w \in Threads : lock_job(w)
    \/ \E w \in Threads, priority \in Priorities : push_range(w, priority)
    \/ \E w \in Threads : pop_range(w)
    \/ \E w \in Threads : unlock_job(w)
    \/ \E w \in Threads : release_job(w)

BorrowSpec == Init /\ [][BorrowNext]_vars

\* The scheduler lets a notified thread take the global mutex again once it is free.
FairSpec == Spec /\ \A w \in Workers : WF_vars(cond_wait_return(w))

----------------------------------------------------------------------------
\* Steps of the handlers, recognised from the worker's position.

\* w's call of find_table_job takes the global mutex
FindTableJobStep(w) ==
    /\ pc[w] = "idle" /\ mode[w] = "none"
    /\ mode'[w] = "own" \/ pc'[w] \in {"done", "wait", "scan", "start_sharing"}

\* w, woken in cond.wait, has the mutex again and leaves the wait: it returns,
\* starts a scan or blocks again
LeavesWait(w) ==
    /\ pc[w] = "wait" /\ w \notin cond_waiting
    /\ pc'[w] # "wait" \/ w \in cond_waiting'

\* w's borrow_work, entered from a wake-up, comes to its end: it returns or blocks again
EndsBorrow(w) ==
    /\ pc[w] \in {"wait", "scan"} /\ w \notin cond_waiting
    /\ pc'[w] \in {"idle", "done"} \/ w \in cond_waiting'

PendingJobs == Range(tables_to_process)

\* w's borrow_work looks at the first job of the shareable set and returns it or erases it
ScanStep(w) ==
    /\ pc[w] = "scan"
    /\ pc'[w] # "scan" \/ tables_with_work_to_share' # tables_with_work_to_share

----------------------------------------------------------------------------
\* C1: a worker that was blocked in find_table_job's borrowing wait when the run
\* was aborted, with a job still claimed and no shareable job holding ready
\* work, returns the cancellation error when it wakes and does not block again.
C1_AbortedWaiterIsCancelled ==
    [][\A w \in Workers :
          (/\ aborted
           /\ LeavesWait(w)
           /\ tables_being_processed # {}
           /\ \A j \in tables_with_work_to_share : ~job_have_work_to_share(j))
          => (pc'[w] = "done" /\ result'[w].kind = "cancelled")]_vars

\* C2: once completed_table has been called for every enqueued job, so that
\* pending and claimed are empty, every worker in the borrowing wait eventually
\* returns "no work".
C2_FinishedReleasesWaiters ==
    \A w \in Workers :
        (pc[w] = "wait" /\ finished /\ completed = enqueued)
            ~> (pc[w] = "done" /\ result[w].kind = "nowork")

\* C2 witness: a worker that waited has returned "no work" after the last job was completed.
C2_Witness ==
    \E w \in Workers :
        /\ pc[w] = "done" /\ result[w].kind = "nowork" /\ waited[w]
        /\ completed = enqueued /\ enqueued # {}

\* C3 as stated: every enqueued job is in exactly one of pending and claimed.
C3_EnqueuedInExactlyOne ==
    \A j \in enqueued : (j \in PendingJobs) # (j \in tables_being_processed)

\* C3 amended: every enqueued job not yet passed to completed_table is in exactly
\* one of pending and claimed (and once in pending); a completed job, and a
\* job never enqueued, is in neither.
C3_UncompletedInExactlyOne ==
    /\ \A j \in enqueued \ completed :
           /\ (j \in PendingJobs) # (j \in tables_being_processed)
           /\ Cardinality({i \in 1..Len(tables_to_process) : tables_to_process[i] = j}) <= 1
    /\ \A j \in completed \cup (Jobs \ enqueued) :
           j \notin PendingJobs /\ j \notin tables_being_processed

\* C3 witness: one job has been completed while another is still claimed.
C3_Witness ==
    /\ completed # {}
    /\ \E j \in enqueued \ completed : j \in tables_being_processed

\* C4: the shareable set is a subset of the claimed set.
C4_ShareableSubsetOfClaimed == tables_with_work_to_share \subseteq tables_being_processed

\* C4 witness: a job that was offered, and so put into the shareable set, has
\* been completed.
C4_Witness ==
    \E j \in completed : j \in offered /\ j \notin tables_being_processed

\* C5: a job is handed out as a whole table to at most one worker; and when as
\* many tables as there are workers were enqueued and every worker has claimed
\* once, each worker has received a table of its own and pending is empty.
C5_ExclusiveWholeTable ==
    /\ \A j \in Jobs : Cardinality(owners[j]) <= 1
    /\ (Cardinality(enqueued) = NWorkers /\ ~aborted /\ \A w \in Workers : calls[w] <= 1)
           => /\ \A w \in Workers : calls[w] = 1 =>
                     (result[w].kind = "table" /\ owners[result[w].job] = {w})
              /\ (\A w \in Workers : calls[w] = 1) => tables_to_process = <<>>

\* C5 witness: every worker has claimed once and holds a different table.
C5_Witness ==
    /\ Cardinality(enqueued) = NWorkers
    /\ \A w \in Workers : calls[w] = 1 /\ result[w].kind = "table"
    /\ \A w1, w2 \in Workers : w1 # w2 => result[w1].job # result[w2].job

\* C6 as stated: a worker blocked in the borrowing wait and woken by
\* have_work_to_share(T), called while T held a ready range, returns T.
C6_OfferedJobIsReturned ==
    [][\A w \in Workers :
          (woken_by[w] # 0 /\ EndsBorrow(w))
          => result'[w] = Returned("borrow", woken_by[w])]_vars

\* C6 amended: have_work_to_share leaves no borrower blocked (a worker stays
\* blocked only while the shareable set is empty), and a worker it woke for T
\* that ends its scan while T is still shareable and still holds a ready range
\* returns a job holding a ready range: T, or a shareable job scanned before T.
C6_OfferReleasesBorrower ==
    /\ [](cond_waiting # {} => tables_with_work_to_share = {})
    /\ [][\A w \in Workers :
             (/\ woken_by[w] # 0
              /\ EndsBorrow(w)
              /\ woken_by[w] \in tables_with_work_to_share
              /\ job_have_work_to_share(woken_by[w]))
             => /\ result'[w].kind = "borrow"
                /\ result'[w].job <= woken_by[w]
                /\ job_have_work_to_share(result'[w].job)]_vars

\* C6 witness: a worker woken by the offer of T has been handed T.
C6_Witness ==
    \E w \in Workers :
        /\ woken_by[w] # 0
        /\ result[w] = Returned("borrow", woken_by[w])
        /\ mode[w] = "borrow"

\* C7: entering sharing mode visits every pending and every claimed job, and a
\* job that holds a ready range when it is visited is put into the shareable set
\* by that visit.
C7_ReadyJobsSharedOnEntry ==
    [][/\ (~sharing_work /\ sharing_work')
          => \E w \in Workers :
                 /\ FindTableJobStep(w)
                 /\ Range(it'[w]) = PendingJobs \cup tables_being_processed
                 /\ it'[w] # <<>> => pc'[w] = "start_sharing"
       /\ \A w \in Workers :
             (pc[w] = "start_sharing" /\ it'[w] # it[w] /\ job_have_work_to_share(Head(it[w])))
             => Head(it[w]) \in tables_with_work_to_share']_vars

\* C7 witness: a borrower has been handed a job although have_work_to_share was never called.
C7_Witness ==
    /\ offered = {}
    /\ \E w \in Workers : result[w].kind = "borrow" /\ mode[w] = "borrow"

\* C8: sharing_work starts false, becomes true when start_sharing_work runs, never
\* returns to false, and start_sharing_work runs at most once, however many
\* workers call find_table_job with an empty pending queue.
C8_SharingStartsOnce ==
    /\ [](ssw_count <= 1 /\ (sharing_work <=> ssw_count = 1))
    /\ [][sharing_work => sharing_work']_vars
    /\ [][\A w \in Workers :
             (FindTableJobStep(w) /\ ~aborted /\ tables_to_process = <<>>) => sharing_work']_vars

\* C8 witness: while one worker is inside find_table_job's borrowing wait,
\* another has called find_table_job with an empty pending queue and returned.
C8_Witness ==
    /\ sharing_work
    /\ \E w1, w2 \in Workers :
           w1 # w2 /\ pc[w1] = "wait" /\ pc[w2] = "done" /\ result[w2].kind = "nowork"

\* C9: once the run is aborted, a call of find_table_job ends at once with the
\* cancellation error, also with jobs pending: it does not block and changes
\* none of pending, claimed, shareable and the sharing flag.
C9_ClaimAfterAbortIsCancelled ==
    [][\A w \in Workers :
          (aborted /\ FindTableJobStep(w))
          => /\ pc'[w] = "done"
             /\ result'[w].kind = "cancelled"
             /\ w \notin cond_waiting'
             /\ mode'[w] = "none"
             /\ UNCHANGED queue_vars]_vars

\* C9 witness: a call was cancelled while a job was pending.
C9_Witness ==
    /\ aborted
    /\ tables_to_process # <<>>
    /\ \E w \in Workers : result[w].kind = "cancelled"

\* C10: once a call of abort has returned, no owner that looked at the aborted
\* flag under its job's mutex before waiting is still blocked, un-notified, on
\* the job's borrowed_task_completed.
C10_AbortWakesJobWaiters ==
    (\E a \in Workers : pc[a] = "done" /\ abort_result[a] # "none")
        => \A j \in Jobs : btc_waiting[j] = {}

\* C10 witness: abort has returned and an owner that was waiting on its job's
\* signal has been notified and not yet run again.
C10_Witness ==
    /\ \E a \in Workers : pc[a] = "done" /\ abort_result[a] # "none"
    /\ \E w \in Workers : pc[w] = "btc_wait" /\ w \notin btc_waiting[cur[w]]
                            /\ cur[w] \in tables_being_processed

\* C11: when abort is called several times, exactly one call returns true and
\* the others return false, and every call, whatever it returns, runs the pass
\* over all the claimed jobs, notifying each job's borrowed_task_completed
\* under the job's mutex before it returns.
C11_OneAbortIsFirst ==
    /\ [](  (\E w \in Workers : abort_result[w] # "none")
          => Cardinality({w \in Workers : abort_result[w] = "true"}) = 1)
    /\ [][\A w \in Workers :
            /\ (pc[w] = "abort_lock" /\ pc'[w] # "abort_lock")
                   => /\ it'[w] = InOrder(tables_being_processed)
                      /\ pc'[w] = "done" => tables_being_processed = {}
            /\ (pc[w] = "abort_notify" /\ it'[w] # it[w])
                   => /\ job_mutex[Head(it[w])] = NoOne
                      /\ btc_waiting'[Head(it[w])] = {}
                      /\ it'[w] = Tail(it[w])
                      /\ pc'[w] = "done" <=> it'[w] = <<>>]_vars

\* C11 witness: two calls of abort have returned, one true and one false, the
\* one that returned false after a pass over a claimed job.
C11_Witness ==
    \E w1, w2 \in Workers :
        /\ pc[w1] = "done" /\ abort_result[w1] = "true"
        /\ pc[w2] = "done" /\ abort_result[w2] = "false"
        /\ tables_being_processed # {}

\* w is the only worker that has called the queue
Alone(w) == \A x \in Threads \ {w} : calls[x] = 0 /\ abort_result[x] = "none"

\* C12: whole-table claims are served from the front of the pending list in
\* enqueue order; with a single worker and tables [T1, T2] enqueued, the first
\* claim returns T1, and the claim made after completed_table(T1) and
\* completed_table(T2) returns "no work".
C12_SingleWorkerScenario ==
    /\ [](LET k == Len(enq_order) - Len(tables_to_process)
          IN /\ k >= 0
             /\ tables_to_process = SubSeq(enq_order, k + 1, Len(enq_order))
             /\ Range(SubSeq(enq_order, 1, k)) = tables_being_processed \cup completed)
    /\ [][\A w \in Workers :
            (FindTableJobStep(w) /\ ~aborted) =>
                /\ tables_to_process # <<>> =>
                       result'[w] = Returned("table", enq_order[Len(enq_order) - Len(tables_to_process) + 1])
                /\ (Alone(w) /\ calls[w] = 0 /\ Len(enq_order) = 2) =>
                       result'[w] = Returned("table", enq_order[1])
                /\ (Alone(w) /\ Len(enq_order) = 2 /\ completed = Range(enq_order)) =>
                       (result'[w] = Returned("nowork", 0) /\ pc'[w] = "done")]_vars

\* C12 witness: a single worker was handed T1 and then T2, completed both, and
\* its next claim returned "no work".
C12_Witness ==
    \E w \in Workers :
        /\ Alone(w) /\ ~aborted
        /\ Len(enq_order) = 2 /\ completed = Range(enq_order)
        /\ owners[enq_order[1]] = {w} /\ owners[enq_order[2]] = {w}
        /\ result[w] = Returned("nowork", 0)

\* the number of ranges of priority p in the heap array s
Count(s, p) == Cardinality({i \in 1..Len(s) : s[i] = p})

\* C13: for a single table job, whenever a range is taken from ranges_to_check
\* its priority is greater than or equal to that of every range present in the
\* collection at that moment, and exactly that range leaves the collection,
\* for any interleaving of insertions and removals.
C13_TakenHasHighestPriority ==
    [][\A j \in Jobs :
          Len(ranges_to_check'[j]) < Len(ranges_to_check[j]) =>
              \E range \in HeapPriorities :
                  /\ \A p \in HeapPriorities :
                         Count(ranges_to_check'[j], p) =
                             Count(ranges_to_check[j], p) - (IF p = range THEN 1 ELSE 0)
                  /\ \A i \in 1..Len(ranges_to_check[j]) : range >= ranges_to_check[j][i]]_vars

\* C13 witness: a range of the highest priority has been taken from a queue
\* that still holds ranges of different lower priorities.
C13_Witness ==
    \E j \in Jobs :
        /\ taken = MaxHeapPriority
        /\ Len(ranges_to_check[j]) = MaxHeapLen - 1
        /\ \A i \in 1..Len(ranges_to_check[j]) : ranges_to_check[j][i] < taken
        /\ \E i1, i2 \in 1..Len(ranges_to_check[j]) : ranges_to_check[j][i1] # ranges_to_check[j][i2]

\* C14: in every reachable state no job is a member of both the pending list
\* and the claimed set.
C14_PendingAndClaimedDisjoint ==
    PendingJobs \cap tables_being_processed = {}

\* C14 witness: one enqueued job has been claimed while another is still pending.
C14_Witness ==
    /\ tables_being_processed # {}
    /\ tables_to_process # <<>>

\* C15 as stated: a borrowing scan removes every job it visits from the
\* shareable set, the job it returns included, and it returns the first
\* visited job that holds ready work.
C15_VisitedAreRemoved ==
    [][\A w \in Threads :
          ScanStep(w) =>
              LET table_job == Min(tables_with_work_to_share)
              IN /\ table_job \notin tables_with_work_to_share'
                 /\ job_have_work_to_share(table_job) <=> result'[w] = Returned("borrow", table_job)
                 /\ result'[w].kind = "borrow" <=> pc'[w] = "idle"]_vars

\* C15 amended: a borrowing scan removes from the shareable set every job it
\* finds without ready work and goes on; the first visited job that holds
\* ready work is returned and stays in the shareable set.
C15_EmptyVisitedAreRemoved ==
    [][\A w \in Threads :
          ScanStep(w) =>
              LET table_job == Min(tables_with_work_to_share)
              IN IF job_have_work_to_share(table_job)
                 THEN /\ result'[w] = Returned("borrow", table_job) /\ pc'[w] = "idle"
                      /\ tables_with_work_to_share' = tables_with_work_to_share
                 ELSE /\ tables_with_work_to_share' = tables_with_work_to_share \ {table_job}
                      /\ result'[w].kind # "borrow" /\ pc'[w] \in {"scan", "wait"}
                      /\ pc'[w] = "wait" <=> tables_with_work_to_share' = {}]_vars

\* C15 witness: a borrower has been handed a job that is still in the
\* shareable set, after a job before it in the set, offered and still claimed,
\* was found without work and removed.
C15_Witness ==
    \E w \in Threads, j \in Jobs :
        /\ result[w] = Returned("borrow", cur[w]) /\ mode[w] = "borrow"
        /\ cur[w] \in tables_with_work_to_share
        /\ j < cur[w] /\ j \in offered /\ j \in tables_being_processed
        /\ j \notin tables_with_work_to_share /\ ~job_have_work_to_share(j)

\* the job mutexes w holds
HoldsJob(w) == {j \in Jobs : job_mutex[j] = w}

\* w is about to take the global mutex, or will take it again when cond.wait returns
RequestsGlobal(w) == pc[w] \in {"abort_lock", "wait"}

\* the job mutex w is about to take
RequestsJob(w) ==
    IF pc[w] \in {"start_sharing", "abort_notify"} THEN {Head(it[w])}
    ELSE IF pc[w] = "scan" THEN {Min(tables_with_work_to_share)}
    ELSE IF pc[w] = "btc_wait" /\ w \notin btc_waiting[cur[w]] THEN {cur[w]}
    ELSE {}

\* w cannot go on before h releases a lock
WaitsFor(w, h) ==
    \/ RequestsGlobal(w) /\ w \notin cond_waiting /\ mutex = h
    \/ \E j \in RequestsJob(w) : job_mutex[j] = h

RECURSIVE WaitsForChain(_, _, _)
\* a chain of at most n waits leads from w to h
WaitsForChain(w, h, n) ==
    /\ n > 0
    /\ \/ WaitsFor(w, h)
       \/ \E x \in Threads : WaitsFor(w, x) /\ WaitsForChain(x, h, n - 1)

\* C16: a dispatcher operation that takes a job's mutex (borrow_work's scan,
\* start_sharing_work_in, abort's loop) holds the global mutex when it asks for
\* it; no worker holding a job's mutex holds or asks for the global mutex; and
\* no workers wait on each other's locks in a cycle.
C16_LockOrderNoDeadlock ==
    /\ \A w \in Threads :
           /\ pc[w] \in {"start_sharing", "scan", "abort_notify"} => mutex = w
           /\ HoldsJob(w) # {} => /\ pc[w] \in {"job_held", "job_checked"}
                                 /\ HoldsJob(w) = {cur[w]}
                                 /\ ~RequestsGlobal(w) /\ mutex # w
    /\ \A w \in Threads : ~WaitsForChain(w, w, Cardinality(Threads))

\* C16 witness: abort's loop, holding the global mutex, waits for the mutex of
\* a job that the worker driving it holds.
C16_Witness ==
    \E w, h \in Threads :
        /\ mutex = w /\ w # h /\ pc[w] = "abort_notify"
        /\ WaitsFor(w, h) /\ HoldsJob(h) = RequestsJob(w)

\* C17: find_table_job returns "no work" only in a state where the pending list
\* and the claimed set are both empty, never while a job is pending or
\* claimed; and a borrower that evaluates borrow_work's loop in such a state
\* returns "no work" rather than blocking.
C17_NoWorkIffFinished ==
    /\ [](\A w \in Workers :
              result[w].kind = "nowork" => tables_to_process = <<>> /\ tables_being_processed = {})
    /\ [][\A w \in Workers :
            /\ (result'[w].kind = "nowork" /\ result[w].kind # "nowork")
                   => tables_to_process = <<>> /\ tables_being_processed = {}
            /\ (/\ (FindTableJobStep(w) /\ ~aborted) \/ LeavesWait(w)
                /\ tables_to_process = <<>> /\ tables_being_processed = {})
                   => /\ result'[w] = Returned("nowork", 0)
                      /\ pc'[w] = "done" /\ w \notin cond_waiting']_vars

\* C17 witness: after the last job was completed, a worker that had not blocked
\* called find_table_job and got "no work", and so did a worker woken from the
\* borrowing wait.
C17_Witness ==
    /\ completed = enqueued /\ enqueued # {} /\ ~aborted
    /\ \E w1, w2 \in Workers :
           /\ result[w1] = Returned("nowork", 0) /\ ~waited[w1]
           /\ result[w2] = Returned("nowork", 0) /\ waited[w2]

\* the borrowers that were handed j and have not yet taken a range from it or given up
Grants(j) == {w \in Threads : mode[w] = "borrow" /\ cur[w] = j}

\* the owner of the job w was handed has taken a range from it since
OwnerTook(w) == taken_since[w] \cap owners[cur[w]] # {}

\* w, handed a job to borrow from, takes the job's mutex
BorrowerLocks(w) == mode[w] = "borrow" /\ pc[w] = "idle" /\ pc'[w] = "job_held"

\* C18 as stated: when a borrower that was handed job J next takes J's mutex,
\* ranges_to_check of J is not empty unless J's owner took ranges in between,
\* even with several borrowers: the borrowers holding an unconsumed grant for
\* J are never more than the ready ranges of J.
C18_GrantIsReservation ==
    /\ [][\A w \in Threads :
            (BorrowerLocks(w) /\ ~OwnerTook(w)) => ranges_to_check[cur[w]] # <<>>]_vars
    /\ [](\A j \in Jobs :
              (\A w \in Grants(j) : ~OwnerTook(w))
                  => Cardinality(Grants(j)) <= Len(ranges_to_check[j]))

\* C18 amended: a job returned in borrow mode holds a ready range when
\* find_table_job returns it, and the borrower finds it non-empty when it next
\* takes the job's mutex unless another worker, the owner or another borrower,
\* took a range from the job in between.
C18_GrantHoldsUntilNextTake ==
    [][\A w \in Threads :
          /\ (mode[w] # "borrow" /\ mode'[w] = "borrow")
                 => /\ result'[w] = Returned("borrow", cur'[w])
                    /\ ranges_to_check[cur'[w]] # <<>>
                    /\ ranges_to_check' = ranges_to_check
          /\ (BorrowerLocks(w) /\ taken_since[w] = {}) => ranges_to_check[cur[w]] # <<>>]_vars

\* C18 witness: two borrowers were handed the same job; one of them holds the
\* job's mutex, nobody having taken a range since it was handed the job, and
\* finds a range to take.
C18_Witness ==
    \E w, x \in Threads :
        /\ w # x /\ mode[w] = "borrow" /\ mode[x] = "borrow" /\ cur[w] = cur[x]
        /\ pc[w] = "job_held" /\ taken_since[w] = {}
        /\ ranges_to_check[cur[w]] # <<>>

\* C19 as stated: whenever sharing mode is on, every job in the pending list
\* or the claimed set has notify_when_work_could_be_shared set; while it is
\* off every job's flag is false; and a flag never returns to false.
C19_FlagsFollowSharingMode ==
    /\ [](IF sharing_work
          THEN \A j \in PendingJobs \cup tables_being_processed : notify_when_work_could_be_shared[j]
          ELSE \A j \in Jobs : ~notify_when_work_could_be_shared[j])
    /\ [][\A j \in Jobs :
            notify_when_work_could_be_shared[j] => notify_when_work_could_be_shared'[j]]_vars

\* C19 amended: once start_sharing_work has made its pass over the jobs, every
\* job in the pending list or the claimed set has its flag set; during the
\* pass the jobs not yet visited still have it false although sharing_work is
\* already true; while sharing mode is off every job's flag is false; and a
\* flag never returns to false.
C19_FlagsSetAfterSharingPass ==
    /\ [](IF sharing_work
          THEN \A j \in PendingJobs \cup tables_being_processed :
                   \/ notify_when_work_could_be_shared[j]
                   \/ \E w \in Threads : pc[w] = "start_sharing" /\ j \in Range(it[w])
          ELSE \A j \in Jobs : ~notify_when_work_could_be_shared[j])
    /\ [][\A j \in Jobs :
            notify_when_work_could_be_shared[j] => notify_when_work_could_be_shared'[j]]_vars

\* C19 witness: start_sharing_work has visited a claimed job and returned, the
\* job is still claimed and its flag is set.
C19_Witness ==
    /\ sharing_work
    /\ \A w \in Threads : pc[w] # "start_sharing"
    /\ \E j \in tables_being_processed : notify_when_work_could_be_shared[j]

\* C20: with enqueue called only before the workers begin claiming, sharing
\* mode is entered only with the pending list empty, and the pending list is
\* empty whenever sharing_work is true; a find_table_job call that finds the
\* pending list non-empty changes neither sharing_work nor the shareable set
\* and does not block.
C20_SharingOnlyWithNothingPending ==
    /\ [](sharing_work => tables_to_process = <<>>)
    /\ [][(~sharing_work /\ sharing_work') => tables_to_process = <<>>]_vars
    /\ [][\A w \in Threads :
            (FindTableJobStep(w) /\ tables_to_process # <<>>)
                => /\ sharing_work' = sharing_work
                   /\ tables_with_work_to_share' = tables_with_work_to_share
                   /\ pc'[w] \in {"idle", "done"}
                   /\ w \notin cond_waiting' /\ mutex' = NoOne]_vars

\* C20 witness: two enqueued tables were each claimed as a whole table, and a
\* later call, finding the pending list empty, has entered sharing mode.
C20_Witness ==
    /\ sharing_work
    /\ Len(enq_order) = 2
    /\ \A j \in enqueued : owners[j] # {}

====
